---- MODULE Spec2Model ----
(***************************************************************************)
(* A model of the `Sorty` early lint pass of rust-sorty (src/src/sorty.rs). *)
(* check_mod walks the items of one module, collects the extern crate,     *)
(* out-of-line mod and use declarations into three lists, and check_sort   *)
(* compares each list with its biased stable sort and emits at most one    *)
(* lint per list.                                                          *)
(*                                                                         *)
(* Rust `String`s are modelled as sequences of byte values, so that        *)
(* `cmp`, `starts_with`, `ends_with`, `split` and `join` are computed on   *)
(* bytes exactly as the code computes them.                                *)
(***************************************************************************)
EXTENDS Integers, Sequences, FiniteSets, TLC

(***************************************************************************)
(* Bytes and strings                                                       *)
(***************************************************************************)

\* The ASCII codes of the characters that occur in the declarations below.
Ord ==
    ("\n" :> 10) @@ (" " :> 32) @@ ("!" :> 33) @@ ("\"" :> 34) @@ ("#" :> 35) @@
    ("(" :> 40) @@ (")" :> 41) @@ ("*" :> 42) @@ ("," :> 44) @@ ("." :> 46) @@
    (":" :> 58) @@ (";" :> 59) @@ ("=" :> 61) @@
    ("B" :> 66) @@ ("T" :> 84) @@
    ("[" :> 91) @@ ("]" :> 93) @@ ("_" :> 95) @@
    ("a" :> 97) @@ ("b" :> 98) @@ ("c" :> 99) @@ ("d" :> 100) @@ ("e" :> 101) @@
    ("f" :> 102) @@ ("g" :> 103) @@ ("h" :> 104) @@ ("i" :> 105) @@ ("l" :> 108) @@
    ("m" :> 109) @@ ("n" :> 110) @@ ("o" :> 111) @@ ("p" :> 112) @@ ("r" :> 114) @@
    ("s" :> 115) @@ ("t" :> 116) @@ ("u" :> 117) @@ ("w" :> 119) @@ ("x" :> 120) @@
    ("y" :> 121) @@ ("z" :> 122) @@
    ("{" :> 123) @@ ("}" :> 125) @@ ("~" :> 126)

\* The string whose characters are given one by one.
Str(chars) == [i \in 1..Len(chars) |-> Ord[chars[i]]]

\* "é" in UTF-8: an identifier character outside ASCII (feature non_ascii_idents).
EAcute == <<195, 169>>

\* str::starts_with
starts_with(s, p) == Len(p) <= Len(s) /\ SubSeq(s, 1, Len(p)) = p

\* str::ends_with
ends_with(s, p) == Len(p) <= Len(s) /\ SubSeq(s, Len(s) - Len(p) + 1, Len(s)) = p

\* str::is_empty
is_empty(s) == Len(s) = 0

\* Ord for str: byte-wise lexicographic comparison; -1 Less, 0 Equal, 1 Greater.
cmp(a, b) ==
    LET common == { i \in 1..Len(a) : i <= Len(b) }
        diff == { i \in common : a[i] # b[i] }
    IN  IF diff # {}
        THEN LET i == CHOOSE k \in diff : \A j \in diff : k <= j
             IN  IF a[i] < b[i] THEN -1 ELSE 1
        ELSE IF Len(a) < Len(b) THEN -1
        ELSE IF Len(a) > Len(b) THEN 1
        ELSE 0

\* [T]::join for strings
RECURSIVE join(_, _)
join(strs, sep) ==
    IF Len(strs) = 0 THEN <<>>
    ELSE IF Len(strs) = 1 THEN strs[1]
    ELSE strs[1] \o sep \o join(Tail(strs), sep)

\* The last piece of str::split(":"): the text after the last ':' of s.
RECURSIVE last_split(_)
last_split(s) ==
    IF Len(s) = 0 THEN <<>>
    ELSE IF s[Len(s)] = Ord[":"] THEN <<>>
    ELSE Append(last_split(SubSeq(s, 1, Len(s) - 1)), s[Len(s)])

\* slice::sort_by, a stable sort. compare[i, j] is what the closure returns for
\* (s[i], s[j]): an element moves in front of the elements it compares Less to and
\* keeps its place among those it compares Equal to. No element is compared with
\* itself, and the closures below are total orders on the lists they are given
\* (no list holds `self` or #[macro_use] twice).
sort_by(s, compare) ==
    LET n == Len(s)
        rank(i) == Cardinality({ j \in (1..n) \ {i} :
                       \/ compare[j, i] < 0
                       \/ (compare[j, i] = 0 /\ j < i) })
    IN  [k \in 1..n |-> s[CHOOSE i \in 1..n : rank(i) = k - 1]]

\* slice::sort for strings
sort(s) == sort_by(s, [i \in 1..Len(s), j \in 1..Len(s) |-> cmp(s[i], s[j])])

(***************************************************************************)
(* The syntax tree handed to the lint pass                                 *)
(***************************************************************************)

\* Option<T> is a sequence of length 0 (None) or 1 (Some).
None == <<>>

Some(x) == <<x>>

\* syntax::ast::LitKind: Str is the kind format_literal accepts.
NoLit == [kind |-> "NoLit", value |-> <<>>]

StrLit(v) == [kind |-> "Str", value |-> v]

IntLit == [kind |-> "Int", value |-> <<>>]

\* syntax::ast::MetaItem with its MetaItemKind.
Word(n) == [name |-> n, kind |-> "Word", items |-> <<>>, lit |-> NoLit]

List(n, nested) == [name |-> n, kind |-> "List", items |-> nested, lit |-> NoLit]

NameValue(n, l) == [name |-> n, kind |-> "NameValue", items |-> <<>>, lit |-> l]

\* syntax::ast::NestedMetaItemKind
NestedMetaItem(m) == [kind |-> "MetaItem", meta |-> m, lit |-> NoLit]

NestedLiteral(l) == [kind |-> "Literal", meta |-> <<>>, lit |-> l]

\* syntax::ast::PathListItem: a member of `use path::{...}`.
ListItem(n, r) == [name |-> n, rename |-> r]

\* keywords::SelfValue.name()
SelfValue == Str(<<"s", "e", "l", "f">>)

\* The file whose items are walked; an inline module's body is in it too.
ThisFile == "lib.rs"

NoView == [kind |-> "NoView", path |-> <<>>, ident |-> <<>>, list |-> <<>>]

\* syntax::ast::Item, with the fields check_mod reads.
ExternCrate(n, old, as) ==
    [kind |-> "ExternCrate", ident |-> n, attrs |-> as, vis |-> "Inherited",
     optional_name |-> old, inner_file |-> ThisFile, view |-> NoView]

ModItem(n, v, as, file) ==
    [kind |-> "Mod", ident |-> n, attrs |-> as, vis |-> v,
     optional_name |-> None, inner_file |-> file, view |-> NoView]

UseSimple(path, n, v, as) ==
    [kind |-> "Use", ident |-> <<>>, attrs |-> as, vis |-> v,
     optional_name |-> None, inner_file |-> ThisFile,
     view |-> [kind |-> "ViewPathSimple", path |-> path, ident |-> n, list |-> <<>>]]

UseList(path, l, v, as) ==
    [kind |-> "Use", ident |-> <<>>, attrs |-> as, vis |-> v,
     optional_name |-> None, inner_file |-> ThisFile,
     view |-> [kind |-> "ViewPathList", path |-> path, ident |-> <<>>, list |-> l]]

UseGlob(path, v, as) ==
    [kind |-> "Use", ident |-> <<>>, attrs |-> as, vis |-> v,
     optional_name |-> None, inner_file |-> ThisFile,
     view |-> [kind |-> "ViewPathGlob", path |-> path, ident |-> <<>>, list |-> <<>>]]

\* Any other item kind (`_ => ()`).
FnItem(n) ==
    [kind |-> "Fn", ident |-> n, attrs |-> <<>>, vis |-> "Inherited",
     optional_name |-> None, inner_file |-> ThisFile, view |-> NoView]

\* item.span of the k-th item of the module, and path.span inside it: the items
\* follow one another in the file, and a path lies within its use statement.
ItemSpan(k) == [lo |-> 10 * k, hi |-> 10 * k + 9]

PathSpan(k) == [lo |-> 10 * k + 4, hi |-> 10 * k + 6]

(***************************************************************************)
(* get_item_attrs, format_literal, get_meta_as_string                      *)
(***************************************************************************)

\* format_literal panics on any literal that is not a string.
format_literal_panics(lit) == lit.kind # "Str"

format_literal(lit) == lit.value

RECURSIVE get_meta_panics(_)
get_meta_panics(meta) ==
    CASE meta.kind = "Word" -> FALSE
      [] meta.kind = "List" ->
            \E i \in 1..Len(meta.items) :
                IF meta.items[i].kind = "MetaItem"
                THEN get_meta_panics(meta.items[i].meta)
                ELSE format_literal_panics(meta.items[i].lit)
      [] meta.kind = "NameValue" -> format_literal_panics(meta.lit)

\* Collect the information from meta items into Strings
RECURSIVE get_meta_as_string(_, _)
get_meta_as_string(name, meta_item) ==
    CASE meta_item.kind = "Word" -> name
      [] meta_item.kind = "List" ->
            LET stuff == [i \in 1..Len(meta_item.items) |->
                            IF meta_item.items[i].kind = "MetaItem"
                            THEN get_meta_as_string(meta_item.items[i].meta.name,
                                                    meta_item.items[i].meta)
                            ELSE format_literal(meta_item.items[i].lit)]
            IN  name \o Str(<<"(">>) \o join(sort(stuff), Str(<<",", " ">>)) \o Str(<<")">>)
      [] meta_item.kind = "NameValue" ->
            name \o Str(<<" ", "=", " ", "\"">>) \o format_literal(meta_item.lit)
                 \o Str(<<"\"">>)

MacroUseAttr == Str(<<"#", "[", "m", "a", "c", "r", "o", "_", "u", "s", "e", "]">>)

PubToken == Str(<<"p", "u", "b", " ">>)

DocPrefix == Str(<<"d", "o", "c", " ", "=", " ">>)

Newline == Str(<<"\n">>)

\* A variant that sorts the attributes alphabetically.
attr_compare_alphabetical(a, b) == cmp(a, b)

\* The comparator of attr_vec.sort_by: put `macro_use` first
attr_compare(a, b) ==
    IF a = MacroUseAttr THEN -1
    ELSE IF b = MacroUseAttr THEN 1
    ELSE cmp(a, b)

get_item_attrs_panics(item) ==
    \E i \in 1..Len(item.attrs) : get_meta_panics(item.attrs[i])

\* for collecting, formatting & filtering the attributes (and checking the visibility);
\* item.attrs holds the attributes for which attr.meta() is Some.
get_item_attrs(item, pub_check) ==
    LET meta_string(meta) == get_meta_as_string(meta.name, meta)
        kept == SelectSeq(item.attrs, LAMBDA meta : ~starts_with(meta_string(meta), DocPrefix))
        attr_vec == [i \in 1..Len(kept) |->
                        Str(<<"#", "[">>) \o meta_string(kept[i]) \o Str(<<"]">>)]
        attr_string == join(sort_by(attr_vec,
                                    [i \in 1..Len(kept), j \in 1..Len(kept) |->
                                        attr_compare(attr_vec[i], attr_vec[j])]),
                            Newline)
    IN  IF item.vis = "Public" /\ pub_check
        THEN IF is_empty(attr_string) THEN PubToken
             ELSE attr_string \o Newline \o PubToken
        ELSE IF is_empty(attr_string) THEN attr_string
             ELSE attr_string \o Newline

(***************************************************************************)
(* check_sort                                                              *)
(***************************************************************************)

\* `~`, prepended to the names of `pub` declarations
PubBias == Str(<<"~">>)

\* `!`, prepended to the names of #[macro_use] declarations
MacroUseBias == Str(<<"!">>)

\* A variant that prepends nothing.
str_for_biased_sort_unbiased(string, choice, prepend_char) == string

\* prepend given characters to the names for "biased" sorting
str_for_biased_sort(string, choice, prepend_char) ==
    IF choice THEN prepend_char \o string ELSE string

\* A variant that leaves the `pub` statements where their names put them.
biased_str_macro_use_only(name, attrs) ==
    str_for_biased_sort(name, starts_with(attrs, MacroUseAttr), MacroUseBias)

\* The string new_list.sort_by compares for one (name, attrs, warn) tuple.
biased_str(name, attrs) ==
    LET new_str == str_for_biased_sort(name, ends_with(attrs, PubToken), PubBias)
    IN  str_for_biased_sort(new_str, starts_with(attrs, MacroUseAttr), MacroUseBias)

\* The comparator of new_list.sort_by
biased_compare(a, b) == cmp(biased_str(a.name, a.attrs), biased_str(b.name, b.attrs))

\* new_list: the (name, attrs, warn) tuples of old_list, sorted
sorted_list(old_list) ==
    LET new_list == [i \in 1..Len(old_list) |->
                        [name |-> old_list[i].name, attrs |-> old_list[i].attrs,
                         warn |-> old_list[i].warn]]
    IN  sort_by(new_list, [i \in 1..Len(old_list), j \in 1..Len(old_list) |->
                              biased_compare(new_list[i], new_list[j])])

\* A variant that looks at the unordered use lists only.
is_unsorted_list_only(old_list, new_list, i) == new_list[i].warn

\* The condition under which the loop raises the lint at position i.
is_unsorted(old_list, new_list, i) ==
    old_list[i].name # new_list[i].name \/ new_list[i].warn

\* A variant without the `break`.
lint_positions_without_break(old_list, new_list) ==
    { i \in 1..Len(old_list) : old_list[i].name # new_list[i].name \/ new_list[i].warn }

\* The positions at which the loop body raises a lint: it breaks at the first.
lint_positions(old_list, new_list) ==
    { i \in 1..Len(old_list) :
        /\ is_unsorted(old_list, new_list, i)
        /\ \A j \in 1..(i - 1) : ~is_unsorted(old_list, new_list, j) }

\* format!("{}{} {};", attrs, syntax, name)
suggestion_line(attrs, syntax, name) ==
    attrs \o syntax \o Str(<<" ">>) \o name \o Str(<<";">>)

TryThis == Str(<<"T", "r", "y", " ", "t", "h", "i", "s", ".", ".", ".", "\n", "\n">>)

\* format!("Try this...\n\n{}\n", suggestion_list.join("\n"))
format_suggestion(suggestion_list) == TryThis \o join(suggestion_list, Newline) \o Newline

\* format!("{} should be in alphabetical order!", kind)
format_message(kind) == kind \o " should be in alphabetical order!"

\* The lint raised at position i: all the declarations from the first unsorted one on.
lint_at(old_list, new_list, i, kind, syntax) ==
    LET suggestion_list == [k \in 1..(Len(new_list) - i + 1) |->
                               suggestion_line(new_list[i + k - 1].attrs, syntax,
                                               new_list[i + k - 1].name)]
        final_span == [lo |-> old_list[i].span.lo, hi |-> old_list[Len(old_list)].span.hi]
    IN  [lint |-> "UNSORTED_DECLARATIONS", span |-> final_span,
         message |-> format_message(kind), help |-> format_suggestion(suggestion_list)]

\* Checks the sorting of all the declarations and raises warnings whenever necessary:
\* the sequence of lints one call hands to cx.span_lint_help.
check_sort(old_list, kind, syntax) ==
    LET new_list == sorted_list(old_list)
        hits == lint_positions(old_list, new_list)
        nth(k) == CHOOSE i \in hits : Cardinality({ j \in hits : j < i }) = k - 1
    IN  [k \in 1..Cardinality(hits) |-> lint_at(old_list, new_list, nth(k), kind, syntax)]

(***************************************************************************)
(* check_mod                                                               *)
(***************************************************************************)

StdName == Str(<<"s", "t", "d">>)

StdPathPrefix == Str(<<"s", "t", "d", ":", ":">>)

ExternCrateKeyword == Str(<<"e", "x", "t", "e", "r", "n", " ", "c", "r", "a", "t", "e">>)

AsKeyword == Str(<<" ", "a", "s">>)

ModKeyword == Str(<<"m", "o", "d">>)

UseKeyword == Str(<<"u", "s", "e">>)

\* The declaration text an extern crate carries after its attributes.
extern_crate_attrs(item) ==
    LET item_attrs == get_item_attrs(item, FALSE)
    IN  IF Len(item.optional_name) = 1      \* for `extern crate foo as bar`
        THEN item_attrs \o ExternCrateKeyword \o Str(<<" ">>) \o item.optional_name[1]
                        \o AsKeyword
        ELSE item_attrs \o ExternCrateKeyword

\* `renamed`: the path, followed by ` as name` when its last segment is not the name
simple_use_name(path_str, name) ==
    IF last_split(path_str) = name THEN path_str
    ELSE path_str \o AsKeyword \o Str(<<" ">>) \o name

\* old_list: the members of a use list as written
use_list_names(list) ==
    [i \in 1..Len(list) |->
        IF list[i].name = SelfValue THEN SelfValue      \* this must be `self`
        ELSE IF Len(list[i].rename) = 1
             THEN list[i].name \o AsKeyword \o Str(<<" ">>) \o list[i].rename[1]
             ELSE list[i].name]

\* A variant that sorts `self` like any other member.
use_list_compare_alphabetical(a, b) == cmp(a, b)

\* The comparator of the use list: `self` should be first in a list of use items
use_list_compare(a, b) ==
    IF a = SelfValue THEN -1
    ELSE IF b = SelfValue THEN 1
    ELSE cmp(a, b)

\* new_list: the members, sorted
sorted_use_list(old_list) ==
    sort_by(old_list, [i \in 1..Len(old_list), j \in 1..Len(old_list) |->
                          use_list_compare(old_list[i], old_list[j])])

\* format!("{}::{{{}}}", path_to_string(&path), new_list.join(", "))
use_list_name(path_str, new_list) ==
    path_str \o Str(<<":", ":", "{">>) \o join(new_list, Str(<<",", " ">>)) \o Str(<<"}">>)

\* check whether the use list is sorted
use_list_warn(old_list, new_list) ==
    \E i \in 1..Len(old_list) : old_list[i] # new_list[i]

glob_use_name(path_str) == path_str \o Str(<<":", ":", "*">>)

Declaration(name, attrs, span, warn) ==
    [name |-> name, attrs |-> attrs, span |-> span, warn |-> warn]

(***************************************************************************)
(* The modules the lint pass is run on                                     *)
(***************************************************************************)

\* The largest number of items in a module.
MaxItems == 3

\* The largest number of items in a module of the few items of LongModuleItems.
MaxLongItems == 4

NoAttrs == <<>>

\* #[macro_use]
MacroUse == <<Word(Str(<<"m", "a", "c", "r", "o", "_", "u", "s", "e">>))>>

\* #[allow(b, a)] #[macro_use]
AllowMacroUse ==
    <<List(Str(<<"a", "l", "l", "o", "w">>),
           <<NestedMetaItem(Word(Str(<<"b">>))), NestedMetaItem(Word(Str(<<"a">>)))>>),
      Word(Str(<<"m", "a", "c", "r", "o", "_", "u", "s", "e">>))>>

\* /// x
DocComment == <<NameValue(Str(<<"d", "o", "c">>), StrLit(Str(<<"x">>)))>>

\* #[a = 1]
IntAttr == <<NameValue(Str(<<"a">>), IntLit)>>

\* extern crate zeta;
CrateZeta == ExternCrate(Str(<<"z", "e", "t", "a">>), None, NoAttrs)

\* extern crate alpha as zz;
CrateAlphaAsZz ==
    ExternCrate(Str(<<"z", "z">>), Some(Str(<<"a", "l", "p", "h", "a">>)), NoAttrs)

\* extern crate zz as beta;
CrateZzAsBeta ==
    ExternCrate(Str(<<"b", "e", "t", "a">>), Some(Str(<<"z", "z">>)), NoAttrs)

\* #[macro_use] extern crate zzz;
CrateMacroZzz == ExternCrate(Str(<<"z", "z", "z">>), None, MacroUse)

\* extern crate std;
CrateStd == ExternCrate(StdName, None, NoAttrs)

\* mod a;
ModA == ModItem(Str(<<"a">>), "Inherited", NoAttrs, "a.rs")

\* pub mod a;
ModPubA == ModItem(Str(<<"a">>), "Public", NoAttrs, "a.rs")

\* pub mod b;
ModPubB == ModItem(Str(<<"b">>), "Public", NoAttrs, "b.rs")

\* mod é;
ModEAcute == ModItem(EAcute, "Inherited", NoAttrs, "e.rs")

\* #[macro_use] mod b;
ModMacroB == ModItem(Str(<<"b">>), "Inherited", MacroUse, "b.rs")

\* #[allow(b, a)] #[macro_use] pub mod c;
ModAllowMacroPubC == ModItem(Str(<<"c">>), "Public", AllowMacroUse, "c.rs")

\* mod a { }
ModInlineA == ModItem(Str(<<"a">>), "Inherited", NoAttrs, ThisFile)

\* #[a = 1] mod b;
ModIntAttrB == ModItem(Str(<<"b">>), "Inherited", IntAttr, "b.rs")

\* use std::fmt;
UseStdFmt ==
    UseSimple(Str(<<"s", "t", "d", ":", ":", "f", "m", "t">>), Str(<<"f", "m", "t">>),
              "Inherited", NoAttrs)

\* use alpha::Bar;
UseAlphaBar ==
    UseSimple(Str(<<"a", "l", "p", "h", "a", ":", ":", "B", "a", "r">>),
              Str(<<"B", "a", "r">>), "Inherited", NoAttrs)

\* use beta::Baz;
UseBetaBaz ==
    UseSimple(Str(<<"b", "e", "t", "a", ":", ":", "B", "a", "z">>),
              Str(<<"B", "a", "z">>), "Inherited", NoAttrs)

\* use a::b as c;
UseABAsC == UseSimple(Str(<<"a", ":", ":", "b">>), Str(<<"c">>), "Inherited", NoAttrs)

\* use foo::{c, a, self, b};
UseFooUnsorted ==
    UseList(Str(<<"f", "o", "o">>),
            <<ListItem(Str(<<"c">>), None), ListItem(Str(<<"a">>), None),
              ListItem(SelfValue, None), ListItem(Str(<<"b">>), None)>>,
            "Inherited", NoAttrs)

\* /// x
\* pub use foo::{self, a as b};
UsePubFooSorted ==
    UseList(Str(<<"f", "o", "o">>),
            <<ListItem(SelfValue, None), ListItem(Str(<<"a">>), Some(Str(<<"b">>)))>>,
            "Public", DocComment)

\* pub use a::*;
UsePubAGlob == UseGlob(Str(<<"a">>), "Public", NoAttrs)

\* use a::*;
UseAGlob == UseGlob(Str(<<"a">>), "Inherited", NoAttrs)

\* use std::prelude::*;
UseStdPreludeGlob ==
    UseGlob(Str(<<"s", "t", "d", ":", ":", "p", "r", "e", "l", "u", "d", "e">>),
            "Inherited", NoAttrs)

\* fn f() { }
FnF == FnItem(Str(<<"f">>))

\* The items of the modules that mostly hold use statements.
UseModuleItems ==
    { UseStdFmt, UseAlphaBar, UseBetaBaz, UseABAsC, UseFooUnsorted, UsePubFooSorted,
      UsePubAGlob, UseAGlob, UseStdPreludeGlob,
      CrateZeta, ModA, ModIntAttrB, FnF }

\* The items of the modules that mostly hold mod declarations.
ModModuleItems ==
    { ModA, ModPubA, ModPubB, ModEAcute, ModMacroB, ModAllowMacroPubC, ModInlineA,
      ModIntAttrB,
      CrateZeta, UseAlphaBar, UseFooUnsorted, UseAGlob, FnF }

\* The items of the modules that mostly hold extern crate declarations.
CrateModuleItems ==
    { CrateZeta, CrateAlphaAsZz, CrateZzAsBeta, CrateMacroZzz, CrateStd,
      ModA, ModIntAttrB, UseAlphaBar, UseFooUnsorted, UseAGlob }

\* The items of the longer modules: use statements no two of which share a name.
LongModuleItems ==
    { UseFooUnsorted, UsePubFooSorted, UsePubAGlob, UseStdFmt,
      CrateZeta, CrateStd, ModA, ModIntAttrB }

\* module.items: every sequence of at most max of the given items.
Modules(items, max) == UNION { [1..n -> items] : n \in 0..max }

(***************************************************************************)
(* The state of one check_mod call                                         *)
(***************************************************************************)

VARIABLES
    module,         \* module.items, the input
    visited,        \* how many items the `for` loop has been through
    extern_crates,  \* the three lists check_mod collects
    mods,
    uses,
    pc,             \* "items", "mods", "uses", "done" or "panicked"
    lints           \* what cx.span_lint_help has been handed, in order

vars == <<module, visited, extern_crates, mods, uses, pc, lints>>

InitOver(items, max) ==
    /\ module \in Modules(items, max)
    /\ visited = 0
    /\ extern_crates = <<>>
    /\ mods = <<>>
    /\ uses = <<>>
    /\ pc = "items"
    /\ lints = <<>>

\* The item the loop is at, and whether its match arm calls get_item_attrs.
InLoop == pc = "items" /\ visited < Len(module)

item == module[visited + 1]

\* A variant that names an extern crate as it was before `as`.
item_name_before_rename ==
    IF Len(item.optional_name) = 1 THEN item.optional_name[1] ELSE item.ident

\* format!("{}", item.ident.name.as_str())
item_name == item.ident

ArmExternCrate == item.kind = "ExternCrate" /\ item_name # StdName

ArmMod == item.kind = "Mod" /\ item.inner_file # ThisFile

ArmUse == item.kind = "Use"

\* ItemKind::ExternCrate(ref optional_name) if item_name != "std"
VisitExternCrate ==
    /\ InLoop /\ ArmExternCrate /\ ~get_item_attrs_panics(item)
    /\ extern_crates' = Append(extern_crates,
           Declaration(item_name, extern_crate_attrs(item), ItemSpan(visited + 1), FALSE))
    /\ visited' = visited + 1
    /\ UNCHANGED <<module, mods, uses, pc, lints>>

\* ItemKind::Mod(ref module), an inline module being ignored
VisitMod ==
    /\ InLoop /\ item.kind = "Mod" /\ (ArmMod => ~get_item_attrs_panics(item))
    /\ mods' = IF ArmMod
               THEN Append(mods, Declaration(item_name, get_item_attrs(item, TRUE),
                                             ItemSpan(visited + 1), FALSE))
               ELSE mods
    /\ visited' = visited + 1
    /\ UNCHANGED <<module, extern_crates, uses, pc, lints>>

\* A variant that neglects the imports from std, as the globs are.
VisitUseSimpleNeglectingStd ==
    /\ InLoop /\ ArmUse /\ item.view.kind = "ViewPathSimple" /\ ~get_item_attrs_panics(item)
    /\ uses' = IF ~starts_with(item.view.path, StdPathPrefix)
                THEN Append(uses,
                         Declaration(simple_use_name(item.view.path, item.view.ident),
                                     get_item_attrs(item, TRUE), ItemSpan(visited + 1), FALSE))
                ELSE uses
    /\ visited' = visited + 1
    /\ UNCHANGED <<module, extern_crates, mods, pc, lints>>

\* ViewPath_::ViewPathSimple(ref ident, ref path)
VisitUseSimple ==
    /\ InLoop /\ ArmUse /\ item.view.kind = "ViewPathSimple" /\ ~get_item_attrs_panics(item)
    /\ uses' = Append(uses,
           Declaration(simple_use_name(item.view.path, item.view.ident),
                       get_item_attrs(item, TRUE), ItemSpan(visited + 1), FALSE))
    /\ visited' = visited + 1
    /\ UNCHANGED <<module, extern_crates, mods, pc, lints>>

\* ViewPath_::ViewPathList(ref path, ref list)
VisitUseList ==
    /\ InLoop /\ ArmUse /\ item.view.kind = "ViewPathList" /\ ~get_item_attrs_panics(item)
    /\ LET old_list == use_list_names(item.view.list)
           new_list == sorted_use_list(old_list)
       IN  uses' = Append(uses,
               Declaration(use_list_name(item.view.path, new_list),
                           get_item_attrs(item, TRUE), PathSpan(visited + 1),
                           use_list_warn(old_list, new_list)))
    /\ visited' = visited + 1
    /\ UNCHANGED <<module, extern_crates, mods, pc, lints>>

\* ViewPath_::ViewPathGlob(ref path), `use std::prelude::*` and the like being neglected
VisitUseGlob ==
    /\ InLoop /\ ArmUse /\ item.view.kind = "ViewPathGlob" /\ ~get_item_attrs_panics(item)
    /\ LET path_str == glob_use_name(item.view.path)
       IN  uses' = IF ~starts_with(path_str, StdPathPrefix)
                   THEN Append(uses, Declaration(path_str, get_item_attrs(item, TRUE),
                                                 ItemSpan(visited + 1), FALSE))
                   ELSE uses
    /\ visited' = visited + 1
    /\ UNCHANGED <<module, extern_crates, mods, pc, lints>>

\* `_ => ()`: `extern crate std` and every other kind of item
VisitOther ==
    /\ InLoop /\ item.kind \notin {"Mod", "Use"} /\ ~ArmExternCrate
    /\ visited' = visited + 1
    /\ UNCHANGED <<module, extern_crates, mods, uses, pc, lints>>

\* panic!("unexpected literal for meta item!") inside get_item_attrs
Panic ==
    /\ InLoop /\ (ArmExternCrate \/ ArmMod \/ ArmUse) /\ get_item_attrs_panics(item)
    /\ pc' = "panicked"
    /\ UNCHANGED <<module, visited, extern_crates, mods, uses, lints>>

\* check_sort(&extern_crates, cx, "crate declarations", "")
CheckSortCrates ==
    /\ pc = "items" /\ visited = Len(module)
    /\ lints' = lints \o check_sort(extern_crates, "crate declarations", <<>>)
    /\ pc' = "mods"
    /\ UNCHANGED <<module, visited, extern_crates, mods, uses>>

\* check_sort(&mods, cx, "module declarations (other than inline modules)", "mod")
CheckSortMods ==
    /\ pc = "mods"
    /\ lints' = lints \o check_sort(mods, "module declarations (other than inline modules)",
                                    ModKeyword)
    /\ pc' = "uses"
    /\ UNCHANGED <<module, visited, extern_crates, mods, uses>>

\* check_sort(&uses, cx, "use statements", "use")
CheckSortUses ==
    /\ pc = "uses"
    /\ lints' = lints \o check_sort(uses, "use statements", UseKeyword)
    /\ pc' = "done"
    /\ UNCHANGED <<module, visited, extern_crates, mods, uses>>

Next ==
    \/ VisitExternCrate
    \/ VisitMod
    \/ VisitUseSimple
    \/ VisitUseList
    \/ VisitUseGlob
    \/ VisitOther
    \/ Panic
    \/ CheckSortCrates
    \/ CheckSortMods
    \/ CheckSortUses

Init == InitOver(UseModuleItems, MaxItems)

InitMods == InitOver(ModModuleItems, MaxItems)

InitCrates == InitOver(CrateModuleItems, MaxItems)

InitLong == InitOver(LongModuleItems, MaxLongItems)

\* check_mod on modules of use statements, of mod declarations, of extern crates,
\* and on longer modules of use statements.
Spec == Init /\ [][Next]_vars

SpecLong == InitLong /\ [][Next]_vars

SpecMods == InitMods /\ [][Next]_vars

SpecCrates == InitCrates /\ [][Next]_vars

(***************************************************************************)
(* What the properties below are stated in                                 *)
(***************************************************************************)

CrateMessage == "crate declarations should be in alphabetical order!"

ModMessage ==
    "module declarations (other than inline modules) should be in alphabetical order!"

UseMessage == "use statements should be in alphabetical order!"

\* The three sequences check_sort is called on, with the message and keyword of each.
CheckedLists ==
    { [list |-> extern_crates, message |-> CrateMessage, keyword |-> <<>>],
      [list |-> mods, message |-> ModMessage, keyword |-> Str(<<"m", "o", "d">>)],
      [list |-> uses, message |-> UseMessage, keyword |-> Str(<<"u", "s", "e">>)] }

\* The diagnostics emitted for one sequence.
LintsOf(message) == SelectSeq(lints, LAMBDA l : l.message = message)

Min(S) == CHOOSE x \in S : \A y \in S : x <= y

\* Whether t occurs in s.
Contains(s, t) == \E o \in 0..(Len(s) - Len(t)) : SubSeq(s, o + 1, o + Len(t)) = t

\* A record's attribute prefix ends with the public-visibility marker.
EndsWithPub(d) == ends_with(d.attrs, Str(<<"p", "u", "b", " ">>))

\* A record's attribute prefix begins with the macro-import attribute.
BeginsWithMacroUse(d) ==
    starts_with(d.attrs, Str(<<"#", "[", "m", "a", "c", "r", "o", "_", "u", "s", "e", "]">>))

\* The biased key: the display name behind `!` (macro-import) and `~` (public).
BiasedKey(d) ==
    (IF BeginsWithMacroUse(d) THEN Str(<<"!">>) ELSE <<>>)
        \o (IF EndsWithPub(d) THEN Str(<<"~">>) ELSE <<>>) \o d.name

\* The sequence is sorted by the biased key.
InCanonicalOrder(list) ==
    \A i, j \in 1..Len(list) : i < j => cmp(BiasedKey(list[i]), BiasedKey(list[j])) <= 0

\* The records of the sequence, stably sorted by the biased key.
Canonical(list) ==
    sort_by(list, [i \in 1..Len(list), j \in 1..Len(list) |->
                      cmp(BiasedKey(list[i]), BiasedKey(list[j]))])

\* The out-of-order pairs of the sequence.
OutOfOrderPairs(list) ==
    { p \in (1..Len(list)) \X (1..Len(list)) :
        p[1] < p[2] /\ cmp(BiasedKey(list[p[1]]), BiasedKey(list[p[2]])) > 0 }

\* The positions where the display name is not the canonical sequence's.
NameMismatches(list) ==
    { i \in 1..Len(list) : list[i].name # Canonical(list)[i].name }

\* The divergence positions: a name mismatch, or force_warn on the canonical record.
Divergences(list) ==
    { i \in 1..Len(list) :
        list[i].name # Canonical(list)[i].name \/ Canonical(list)[i].warn }

\* The item a record of a sequence was made from.
ItemOf(d) == module[d.span.lo \div 10]

\* The item carries the #[macro_use] attribute.
CarriesMacroUse(it) ==
    \E i \in 1..Len(it.attrs) :
        /\ it.attrs[i].kind = "Word"
        /\ it.attrs[i].name = Str(<<"m", "a", "c", "r", "o", "_", "u", "s", "e">>)

\* The records of the sequence that r, a record of its sorted copy, stands for.
OriginalsOf(list, r) ==
    { k \in 1..Len(list) :
        list[k].name = r.name /\ list[k].attrs = r.attrs /\ list[k].warn = r.warn }

FromMacroUseItem(list, r) == \E k \in OriginalsOf(list, r) : CarriesMacroUse(ItemOf(list[k]))

FromPublicItem(list, r) == \E k \in OriginalsOf(list, r) : ItemOf(list[k]).vis = "Public"

IsAscii(string) == \A i \in 1..Len(string) : string[i] < 128

\* The text of a suggestion with the given lines.
Suggestion(lines) ==
    Str(<<"T", "r", "y", " ", "t", "h", "i", "s", ".", ".", ".", "\n", "\n">>)
        \o join(lines, Str(<<"\n">>)) \o Str(<<"\n">>)

(***************************************************************************)
(* C1: canonical order is a fixed point of check_sort                      *)
(***************************************************************************)

NoForceWarn(list) == \A i \in 1..Len(list) : ~list[i].warn

\* C1 as stated: for every sequence that is already in canonical order (equal to its
\* stable sort by the biased key), check_sort emits no diagnostic.
C1_CanonicalIsFixedPointAsStated ==
    pc = "done" =>
        \A c \in CheckedLists :
            InCanonicalOrder(c.list) => LintsOf(c.message) = <<>>

\* C1 as amended: for every sequence that is already in canonical order and in which
\* no record has force_warn set, check_sort emits no diagnostic.
C1_CanonicalIsFixedPoint ==
    pc = "done" =>
        \A c \in CheckedLists :
            InCanonicalOrder(c.list) /\ NoForceWarn(c.list) => LintsOf(c.message) = <<>>

\* A canonical sequence of use statements that ends with a public one, and no lint.
C1_Witness ==
    /\ pc = "done"
    /\ Len(uses) >= 2
    /\ InCanonicalOrder(uses) /\ NoForceWarn(uses)
    /\ EndsWithPub(uses[Len(uses)]) /\ ~EndsWithPub(uses[1])
    /\ cmp(uses[Len(uses)].name, uses[1].name) < 0
    /\ LintsOf(UseMessage) = <<>>

(***************************************************************************)
(* C2: only the first divergence is reported                               *)
(***************************************************************************)

C9_NoDivergenceImpliesCanonical ==
    pc = "done" =>
        \A c \in CheckedLists :
            LintsOf(c.message) = <<>> => InCanonicalOrder(c.list)

(***************************************************************************)
(* C10: the suggestion reorders exactly what the span covers               *)
(***************************************************************************)

\* The records of the sequence that lie within the span.
CoveredBy(list, span) ==
    { k \in 1..Len(list) : span.lo <= list[k].span.lo /\ list[k].span.hi <= span.hi }

\* The orders in which the records of a set can be listed.
Orderings(S) ==
    { f \in [1..Cardinality(S) -> S] : \A i, j \in 1..Cardinality(S) : f[i] = f[j] => i = j }

\* C10: whenever check_sort emits a diagnostic, the declarations its suggestion
\* renders are a permutation of the original records its span covers.
C10_SuggestionPermutesSpan ==
    pc = "done" =>
        \A c \in CheckedLists :
            \A n \in 1..Len(LintsOf(c.message)) :
                LET l == LintsOf(c.message)[n]
                IN  \E f \in Orderings(CoveredBy(c.list, l.span)) :
                        l.help = Suggestion([i \in 1..Len(f) |->
                                     c.list[f[i]].attrs \o c.keyword \o Str(<<" ">>)
                                         \o c.list[f[i]].name \o Str(<<";">>)])

(***************************************************************************)
(* C3: `use std::fmt; use alpha::Bar; use beta::Baz;`                      *)
(***************************************************************************)

StdFmtModule == <<UseStdFmt, UseAlphaBar, UseBetaBaz>>

UseAlphaBarLine ==
    Str(<<"u", "s", "e", " ", "a", "l", "p", "h", "a", ":", ":", "B", "a", "r", ";">>)

UseBetaBazLine ==
    Str(<<"u", "s", "e", " ", "b", "e", "t", "a", ":", ":", "B", "a", "z", ";">>)

UseStdFmtLine ==
    Str(<<"u", "s", "e", " ", "s", "t", "d", ":", ":", "f", "m", "t", ";">>)

\* C3 as stated: for this module check_mod emits exactly one warning, on the use
\* group, and its suggestion lists only `use alpha::Bar;` and `use beta::Baz;`.
C3_StdImportExcludedAsStated ==
    pc = "done" /\ module = StdFmtModule =>
        /\ Len(lints) = 1
        /\ lints[1].message = UseMessage
        /\ lints[1].help = Suggestion(<<UseAlphaBarLine, UseBetaBazLine>>)

\* C3 as amended: for this module check_mod emits exactly one warning, on the use
\* group, spanning the three declarations, and its suggestion lists `use alpha::Bar;`,
\* `use beta::Baz;` and `use std::fmt;`, in this order.
C3_StdImportListed ==
    pc = "done" /\ module = StdFmtModule =>
        /\ Len(lints) = 1
        /\ lints[1].message = UseMessage
        /\ lints[1].span = [lo |-> ItemSpan(1).lo, hi |-> ItemSpan(3).hi]
        /\ lints[1].help = Suggestion(<<UseAlphaBarLine, UseBetaBazLine, UseStdFmtLine>>)

C3_Witness == pc = "done" /\ module = StdFmtModule /\ Len(uses) = 3 /\ Len(lints) = 1

(***************************************************************************)
(* C4: `pub mod b; mod a;`                                                 *)
(***************************************************************************)

PubModBModule == <<ModPubB, ModA>>

\* C4 as stated: for out-of-line `pub mod b; mod a;` the canonical order is a, b, it
\* is taken to match the source, and check_mod emits no warning for the mods.
C4_PubModBNoWarningAsStated ==
    pc = "done" /\ module = PubModBModule =>
        /\ [i \in 1..2 |-> Canonical(mods)[i].name] = <<Str(<<"a">>), Str(<<"b">>)>>
        /\ LintsOf(ModMessage) = <<>>

\* C4 as amended: for out-of-line `pub mod b; mod a;` the canonical order is a, b,
\* which is not the source order b, a: check_mod emits exactly one warning for the
\* mods, spanning both declarations, with the suggestion `mod a;` `pub mod b;`.
C4_PubModBWarning ==
    pc = "done" /\ module = PubModBModule =>
        /\ [i \in 1..2 |-> Canonical(mods)[i].name] = <<Str(<<"a">>), Str(<<"b">>)>>
        /\ Len(lints) = 1
        /\ lints[1].message = ModMessage
        /\ lints[1].span = [lo |-> ItemSpan(1).lo, hi |-> ItemSpan(2).hi]
        /\ lints[1].help = Suggestion(<<Str(<<"m", "o", "d", " ", "a", ";">>),
                                        Str(<<"p", "u", "b", " ", "m", "o", "d", " ", "b", ";">>)>>)

C4_Witness == pc = "done" /\ module = PubModBModule /\ Len(mods) = 2 /\ Len(lints) = 1

(***************************************************************************)
(* C5: macro-import precedence                                             *)
(***************************************************************************)

ModsAndUses == { c \in CheckedLists : c.message \in {ModMessage, UseMessage} }

CanonicalMembers(names) ==
    SelectSeq(names, LAMBDA n : n = Str(<<"s", "e", "l", "f">>))
        \o sort(SelectSeq(names, LAMBDA n : n # Str(<<"s", "e", "l", "f">>)))

\* The import lists of the module whose members are not in canonical order.
UnsortedImportLists ==
    { k \in 1..Len(module) :
        /\ module[k].kind = "Use" /\ module[k].view.kind = "ViewPathList"
        /\ use_list_names(module[k].view.list)
             # CanonicalMembers(use_list_names(module[k].view.list)) }

\* The declaration of an import list with its members in canonical order.
CanonicalImport(it) ==
    Str(<<"u", "s", "e", " ">>) \o it.view.path \o Str(<<":", ":", "{">>)
        \o join(CanonicalMembers(use_list_names(it.view.list)), Str(<<",", " ">>))
        \o Str(<<"}", ";">>)

\* C7: whenever the module holds an import list whose member order differs from the
\* canonical one, check_mod emits a use-statement diagnostic, whatever the place of
\* the declaration among its siblings, and the suggestion renders the list in
\* canonical order, `self` first: `use foo::{c, a, self, b};` alone yields
\* `use foo::{self, a, b, c};`.
C7_UnsortedListWarns ==
    pc = "done" =>
        /\ \A k \in UnsortedImportLists :
              /\ Len(LintsOf(UseMessage)) = 1
              /\ Contains(LintsOf(UseMessage)[1].help, CanonicalImport(module[k]))
        /\ module = <<UseFooUnsorted>> =>
              /\ Len(lints) = 1
              /\ lints[1].help = Suggestion(<<Str(<<"u", "s", "e", " ", "f", "o", "o", ":", ":",
                                                   "{", "s", "e", "l", "f", ",", " ", "a", ",",
                                                   " ", "b", ",", " ", "c", "}", ";">>)>>)

\* An unsorted import list in its place among siblings that are in canonical order.
C7_Witness ==
    /\ pc = "done"
    /\ UnsortedImportLists # {}
    /\ Len(uses) >= 2
    /\ NameMismatches(uses) = {}
    /\ InCanonicalOrder(uses)
    /\ Len(LintsOf(UseMessage)) = 1

(***************************************************************************)
(* C8: extern crates are ordered by their bound name                       *)
(***************************************************************************)

\* The extern crate items check_mod records, in source order.
ExternCrateItems ==
    SelectSeq(module, LAMBDA it : it.kind = "ExternCrate" /\ it.ident # Str(<<"s", "t", "d">>))

\* The bound names are in ascending byte-wise order.
BoundNamesAscend ==
    \A i, j \in 1..Len(ExternCrateItems) :
        i < j => cmp(ExternCrateItems[i].ident, ExternCrateItems[j].ident) <= 0

\* C8: for extern crate declarations without #[macro_use], check_sort emits no
\* diagnostic exactly when the bound (post-rename) names are in ascending byte-wise
\* order; `extern crate zeta; extern crate alpha as zz;` yields no warning.
C8_CratesByBoundName ==
    pc = "done" =>
        /\ (\A i \in 1..Len(ExternCrateItems) : ~CarriesMacroUse(ExternCrateItems[i]))
              => (LintsOf(CrateMessage) = <<>> <=> BoundNamesAscend)
        /\ module = <<CrateZeta, CrateAlphaAsZz>> => lints = <<>>

C8_Witness ==
    /\ pc = "done"
    /\ module = <<CrateZeta, CrateAlphaAsZz>>
    /\ Len(extern_crates) = 2
    /\ lints = <<>>

====
